---- MODULE Spec2Model ----
(***************************************************************************)
(* Model of the AI document summarizer: the /api/summarize and /api/upload *)
(* route handlers, the client-side extraction helper extractTextFromFile,  *)
(* the handlers handleFileSelect and handleSummarize of DocumentSummarizer *)
(* with the FileUpload dropzone, the Firestore collection 'summaries',     *)
(* HistoryDashboard (fetchHistory, the search filter, deleteItem) and the  *)
(* statistics of Dashboard (fetchStats).                                   *)
(*                                                                         *)
(* Strings that can be long (document text, summaries) are kept run-length *)
(* encoded: a Text is a sequence of runs [ch, n] in which adjacent runs    *)
(* have different characters and n >= 1.  This keeps the 100,000 character *)
(* cap of the program at its real value.  JavaScript null/undefined is the *)
(* empty sequence Null, a present value v is Some(v) = <<v>>.              *)
(***************************************************************************)
EXTENDS Integers, Sequences, FiniteSets, TLC

VARIABLES
    apiKeySet,      \* process.env.GOOGLE_AI_API_KEY is set
    sPc,            \* position of the /api/summarize handler
    sReq,           \* the parsed request body of /api/summarize
    sCalls,         \* prompts handed to model.generateContent, in order
    sSummary,       \* the summary returned by the first model call
    sHighlightText, \* the text returned by the second model call
    sThrown,        \* the error caught by the handler (what console.error logs)
    sResp,          \* the HTTP response of /api/summarize
    call,           \* the call made of extractTextFromFile or /api/upload, with its result
    isProcessing,   \* DocumentSummarizer state
    extractedText,  \* DocumentSummarizer state
    summaryResult,  \* DocumentSummarizer state
    error,          \* DocumentSummarizer state
    currentFile,    \* DocumentSummarizer state
    hPc,            \* position of handleFileSelect
    hFile,          \* the file argument of the running handleFileSelect
    hResult,        \* the local extractionResult of the running handleFileSelect
    summaryType,    \* DocumentSummarizer state
    customLength,   \* DocumentSummarizer state
    tone,           \* DocumentSummarizer state
    user,           \* the user of useAuth(), Null when nobody is signed in
    selectedFile,   \* FileUpload state
    gPc,            \* position of handleSummarize
    gCtx,           \* the state that the running handleSummarize closed over
    gResp,          \* the 200 response of /api/summarize that handleSummarize saves
    sent,           \* number of /api/summarize requests the client has sent
    store,          \* the documents of the Firestore collection 'summaries'
    clock,          \* number of documents the store has created: ids and server time
    activeTab,      \* Dashboard state
    historyItems,   \* HistoryDashboard state
    filteredItems,  \* HistoryDashboard state
    searchQuery,    \* HistoryDashboard state
    isLoading,      \* HistoryDashboard state
    selectedItem,   \* HistoryDashboard state
    deletes,        \* the running calls of deleteItem
    fetches,        \* the running calls of fetchHistory
    queries,        \* number of getDocs queries that fetchHistory has issued
    stats,          \* Dashboard state
    statsCall       \* the call of fetchStats that the effect of Dashboard made

sVars == <<apiKeySet, sPc, sReq, sCalls, sSummary, sHighlightText, sThrown, sResp>>
uiVars == <<isProcessing, extractedText, summaryResult, error, currentFile>>
fVars == <<hPc, hFile, hResult>>
oVars == <<summaryType, customLength, tone>>
gVars == <<gPc, gCtx, gResp, sent>>
dbVars == <<store, clock>>
upVars == <<isProcessing, extractedText, summaryResult, error, currentFile, hPc, hFile,
           hResult, summaryType, customLength, tone, selectedFile, gPc, gCtx, gResp, sent>>
histVars == <<activeTab, historyItems, filteredItems, searchQuery, isLoading, selectedItem,
             deletes, fetches, queries>>
stVars == <<stats, statsCall>>
cVars == <<isProcessing, extractedText, summaryResult, error, currentFile, hPc, hFile,
          hResult, summaryType, customLength, tone, user, selectedFile, gPc, gCtx, gResp,
          sent, store, clock, activeTab, historyItems, filteredItems, searchQuery, isLoading,
          selectedItem, deletes, fetches, queries, stats, statsCall>>
vars == <<apiKeySet, sPc, sReq, sCalls, sSummary, sHighlightText, sThrown, sResp, call,
          isProcessing, extractedText, summaryResult, error, currentFile, hPc, hFile,
          hResult, summaryType, customLength, tone, user, selectedFile, gPc, gCtx, gResp,
          sent, store, clock, activeTab, historyItems, filteredItems, searchQuery, isLoading,
          selectedItem, deletes, fetches, queries, stats, statsCall>>

----------------------------------------------------------------------------
(* Bounds of the model *)

MaxRuns == 2        \* runs of a document text
MaxReqRuns == 3     \* runs of a /api/summarize text and of a summary
MaxHLen == 3        \* tokens of a highlight response
MaxRequests == 2    \* /api/summarize requests sent by the client
MaxQueries == 3     \* getDocs queries of fetchHistory that are counted
MaxDeletes == 2     \* calls of deleteItem running at a time

----------------------------------------------------------------------------
(* Optional values *)

Null == <<>>
Some(v) == <<v>>
IsNull(o) == o = <<>>
Val(o) == o[1]

----------------------------------------------------------------------------
(* Texts *)

Run(c, k) == [ch |-> c, n |-> k]

\* /\s/ on the characters of the model
IsWs(c) == c = " "

RECURSIVE TextLen(_)
\* String.prototype.length
TextLen(t) == IF t = <<>> THEN 0 ELSE t[1].n + TextLen(Tail(t))

\* string concatenation (+), merging the runs that meet
Concat(s, t) ==
    IF s = <<>> THEN t
    ELSE IF t = <<>> THEN s
    ELSE IF s[Len(s)].ch = t[1].ch
         THEN SubSeq(s, 1, Len(s) - 1)
              \o <<Run(t[1].ch, s[Len(s)].n + t[1].n)>> \o Tail(t)
         ELSE s \o t

RECURSIVE Substring0(_, _)
\* String.prototype.substring(0, k)
Substring0(t, k) ==
    IF t = <<>> \/ k <= 0 THEN <<>>
    ELSE IF t[1].n >= k THEN <<Run(t[1].ch, k)>>
    ELSE <<t[1]>> \o Substring0(Tail(t), k - t[1].n)

\* String.prototype.trim
Trim(t) ==
    LET lo == IF t # <<>> /\ IsWs(t[1].ch) THEN 2 ELSE 1
        hi == IF t # <<>> /\ IsWs(t[Len(t)].ch) THEN Len(t) - 1 ELSE Len(t)
    IN  SubSeq(t, lo, hi)

RECURSIVE SplitFrom(_, _)
\* the pieces of t between its whitespace runs; cur is the piece being read
SplitFrom(t, cur) ==
    IF t = <<>> THEN <<cur>>
    ELSE IF IsWs(t[1].ch) THEN <<cur>> \o SplitFrom(Tail(t), <<>>)
    ELSE SplitFrom(Tail(t), cur \o <<t[1]>>)

\* text.split(/\s+/)
SplitWs(t) == SplitFrom(t, <<>>)

NonEmptyWord(w) == TextLen(w) > 0

\* a faulty WordCount: the filter on empty tokens is missing
WordCountUnfiltered(t) == Len(SplitWs(t))

\* text.split(/\s+/).filter(word => word.length > 0).length
WordCount(t) == Len(SelectSeq(SplitWs(t), NonEmptyWord))

\* text.split(/\s+/).length
NaiveWordCount(t) == Len(SplitWs(t))

\* !text || text.trim().length === 0, on an optional text
BlankOrMissing(o) == IsNull(o) \/ TextLen(Val(o)) = 0 \/ TextLen(Trim(Val(o))) = 0

TextCap == 100000

\* the truncation marker '...'
Marker == <<Run(".", 3)>>

\* text.length > 100000 ? text.substring(0, 100000) + '...' : text
Truncate(t) == IF TextLen(t) > TextCap THEN Concat(Substring0(t, TextCap), Marker) ELSE t

\* the normalised texts of at most k runs over the characters cs and run lengths ls
TextsOver(cs, ls, k) ==
    {t \in UNION {[1..m -> [ch : cs, n : ls]] : m \in 0..k} :
        \A i \in 1..(Len(t) - 1) : t[i].ch # t[i + 1].ch}

----------------------------------------------------------------------------
(* /api/summarize: the prompt *)

\* a prompt is a sequence of pieces: literal text, a number, or the document text
Lit(s) == [kind |-> "lit", lit |-> s, num |-> 0, txt |-> <<>>]
Num(k) == [kind |-> "num", lit |-> "", num |-> k, txt |-> <<>>]
Txt(t) == [kind |-> "txt", lit |-> "", num |-> 0, txt |-> t]

ShortLit == "Please provide a concise summary of the following text in 1-2 paragraphs. Focus on the main points and key information:\n\n"
BulletLit == "Please summarize the following text as bullet points. Extract the key information and present it in a clear, organized list:\n\n"
CustomLit1 == "Please summarize the following text in approximately "
CustomLit2 == " words. Maintain the essential information while being concise:\n\n"
DefaultLit == "Please provide a comprehensive summary of the following text, highlighting the main points and key information:\n\n"
HighlightLit == "From the following text, extract important keywords, names of people/organizations, and dates. Present them as a JSON object with three arrays: \"keywords\", \"names\", and \"dates\":\n\n"

DefaultWords == 200

\* a faulty WordTarget: no default for an unset length
WordTargetNoDefault(len) ==
    IF IsNull(len) THEN 0 ELSE Val(len)

\* customLength || 200
WordTarget(len) ==
    IF IsNull(len) \/ Val(len) = 0
    THEN DefaultWords ELSE Val(len)

\* switch (summaryType), with customLength as len
Template(type, len, text) ==
    IF type = Some("short") THEN <<Lit(ShortLit), Txt(text)>>
    ELSE IF type = Some("bullet") THEN <<Lit(BulletLit), Txt(text)>>
    ELSE IF type = Some("custom")
    THEN <<Lit(CustomLit1), Num(WordTarget(len)), Lit(CustomLit2), Txt(text)>>
    ELSE <<Lit(DefaultLit), Txt(text)>>

toneInstructions ==
    [professional |-> "Use a professional and formal tone.",
     casual |-> "Use a casual and conversational tone.",
     academic |-> "Use an academic and scholarly tone with precise language."]

\* a faulty TonePrefix: the test for 'neutral' is missing
TonePrefixAlways(name) ==
    IF IsNull(name) \/ Val(name) = "" THEN <<>>
    ELSE IF Val(name) \in DOMAIN toneInstructions
         THEN <<Lit(toneInstructions[Val(name)]), Lit(" ")>>
         ELSE <<Lit("undefined"), Lit(" ")>>

\* if (tone && tone !== 'neutral') prompt = `${toneInstructions[tone]} ${prompt}`
TonePrefix(name) ==
    IF IsNull(name) \/ Val(name) = "" \/ Val(name) = "neutral" THEN <<>>
    ELSE IF Val(name) \in DOMAIN toneInstructions
         THEN <<Lit(toneInstructions[Val(name)]), Lit(" ")>>
         ELSE <<Lit("undefined"), Lit(" ")>>

BuildPrompt(req) ==
    TonePrefix(req.tone) \o Template(req.summaryType, req.customLength, Val(req.text))

HighlightPrompt(text) == <<Lit(HighlightLit), Txt(text)>>

----------------------------------------------------------------------------
(* /api/summarize: the highlights *)

\* JSON values of the highlight object
Arr(items) == [kind |-> "array", items |-> items]
Str(s) == [kind |-> "string", items |-> <<s>>]

\* let highlights = { keywords: [], names: [], dates: [] }
DefaultHighlights == [keywords |-> Arr(<<>>), names |-> Arr(<<>>), dates |-> Arr(<<>>)]

(* A highlight response is a sequence of tokens: the braces, the comma, "x"  *)
(* for prose that is no JSON, and three object members:                     *)
(*   "K"  for  "keywords":["k"]                                             *)
(*   "S"  for  "keywords":"k"                                               *)
(*   "A"  for  "keywords":["k"],"names":["n"],"dates":["d"]                 *)
HTokens == {"{", "}", ",", "x", "K", "S", "A"}
MemberTokens == {"K", "S", "A"}

\* the members a member token stands for, as <<field, value>> pairs
MembersOf(tok) ==
    IF tok = "K" THEN << <<"keywords", Arr(<<"k">>)>> >>
    ELSE IF tok = "S" THEN << <<"keywords", Str("k")>> >>
    ELSE << <<"keywords", Arr(<<"k">>)>>, <<"names", Arr(<<"n">>)>>,
            <<"dates", Arr(<<"d">>)>> >>

\* highlightText.match(/\{[\s\S]*\}/): from the first "{" to the last "}"
JsonMatch(h) ==
    LET opens == {i \in 1..Len(h) : h[i] = "{"}
        first == CHOOSE i \in opens : \A j \in opens : i <= j
        closes == {i \in 1..Len(h) : h[i] = "}" /\ i > first}
        last == CHOOSE i \in closes : \A j \in closes : j <= i
    IN  IF opens = {} THEN Null
        ELSE IF closes = {} THEN Null
        ELSE Some(SubSeq(h, first, last))

\* the text between the braces is empty or members separated by commas
ValidMembers(inner) ==
    \/ inner = <<>>
    \/ /\ Len(inner) % 2 = 1
       /\ \A i \in 1..Len(inner) :
            IF i % 2 = 1 THEN inner[i] \in MemberTokens ELSE inner[i] = ","

\* an object with field f set to v (a later member replaces an earlier one)
SetField(obj, f, v) == [g \in (DOMAIN obj) \cup {f} |-> IF g = f THEN v ELSE obj[g]]

RECURSIVE AddMembers(_, _)
AddMembers(obj, ms) ==
    IF ms = <<>> THEN obj
    ELSE AddMembers(SetField(obj, ms[1][1], ms[1][2]), Tail(ms))

RECURSIVE ObjectOf(_, _)
ObjectOf(obj, inner) ==
    IF inner = <<>> THEN obj
    ELSE IF inner[1] = "," THEN ObjectOf(obj, Tail(inner))
    ELSE ObjectOf(AddMembers(obj, MembersOf(inner[1])), Tail(inner))

\* JSON.parse(jsonMatch[0]): ok is FALSE when it throws
JsonParse(m) ==
    LET inner == SubSeq(m, 2, Len(m) - 1)
    IN  IF ValidMembers(inner)
        THEN [ok |-> TRUE, value |-> ObjectOf(<<>>, inner)]
        ELSE [ok |-> FALSE, value |-> <<>>]

\* a faulty ParseHighlights: an unparsable match gives no highlights at all
ParseHighlightsNoFallback(h) ==
    IF IsNull(JsonMatch(h)) THEN DefaultHighlights
    ELSE JsonParse(Val(JsonMatch(h))).value

\* try { match; if (jsonMatch) highlights = JSON.parse(...) } catch { }
ParseHighlights(h) ==
    IF IsNull(JsonMatch(h)) THEN DefaultHighlights
    ELSE IF JsonParse(Val(JsonMatch(h))).ok THEN JsonParse(Val(JsonMatch(h))).value
    ELSE DefaultHighlights

----------------------------------------------------------------------------
(* /api/summarize: the handler *)

NoTextMsg == "No text provided for summarization"
NoKeyMsg == "Gemini API key not configured"
SummarizeFailedMsg == "Failed to generate summary. Please check your API key and try again."

ErrorResponse(status, msg) == [status |-> status, error |-> msg]

\* a faulty CompressionRatio: the ratio is truncated, not rounded
CompressionRatioTruncated(original, summary) ==
    IF original >= summary
    THEN (100 * (original - summary)) \div original
    ELSE -((100 * (summary - original)) \div original)

\* Math.round((1 - summary / original) * 100); Math.round rounds halves up
CompressionRatio(original, summary) ==
    (200 * (original - summary) + original) \div (2 * original)

\* the body of the 200 response
SummaryBody(text, summary, highlights) ==
    [success |-> TRUE,
     summary |-> summary,
     highlights |-> highlights,
     originalWordCount |-> NaiveWordCount(text),
     summaryWordCount |-> NaiveWordCount(summary),
     compressionRatio |-> CompressionRatio(NaiveWordCount(text), NaiveWordCount(summary))]

\* a faulty Validate: the credential is tested before the text
ValidateKeyFirst(req, keySet) ==
    IF ~keySet THEN Some(ErrorResponse(500, NoKeyMsg))
    ELSE IF BlankOrMissing(req.text) THEN Some(ErrorResponse(400, NoTextMsg))
    ELSE Null

\* the two early returns of the handler; Null when the request passes both
Validate(req, keySet) ==
    IF BlankOrMissing(req.text) THEN Some(ErrorResponse(400, NoTextMsg))
    ELSE IF ~keySet THEN Some(ErrorResponse(500, NoKeyMsg))
    ELSE Null

\* a faulty CatchResponse: the message of the caught error is sent back
CatchResponseLeaky(msg) == ErrorResponse(500, msg)

\* the outer catch block
CatchResponse(msg) == ErrorResponse(500, SummarizeFailedMsg)

\* the request body could not be parsed: request.json() throws
PostSummarizeMalformed(msg) ==
    /\ sPc = "idle"
    /\ sThrown' = Some([at |-> "json", msg |-> msg])
    /\ sResp' = Some(CatchResponse(msg))
    /\ sPc' = "done"
    /\ UNCHANGED <<apiKeySet, sReq, sCalls, sSummary, sHighlightText, call>>
    /\ UNCHANGED cVars

\* a request arrives: validation, then the prompt goes to the model
PostSummarize(req) ==
    /\ sPc = "idle"
    /\ sReq' = Some(req)
    /\ IF IsNull(Validate(req, apiKeySet))
       THEN /\ sCalls' = <<BuildPrompt(req)>>
            /\ sPc' = "summaryCall"
            /\ UNCHANGED sResp
       ELSE /\ sResp' = Validate(req, apiKeySet)
            /\ sPc' = "done"
            /\ UNCHANGED sCalls
    /\ UNCHANGED <<apiKeySet, sSummary, sHighlightText, sThrown, call>>
    /\ UNCHANGED cVars

\* the first model call returns: the highlight prompt goes to the model
SummaryCallReturns(summary) ==
    /\ sPc = "summaryCall"
    /\ sSummary' = Some(summary)
    /\ sCalls' = Append(sCalls, HighlightPrompt(Val(Val(sReq).text)))
    /\ sPc' = "highlightCall"
    /\ UNCHANGED <<apiKeySet, sReq, sHighlightText, sThrown, sResp, call>>
    /\ UNCHANGED cVars

\* the first model call (or reading its text) throws
SummaryCallThrows(msg) ==
    /\ sPc = "summaryCall"
    /\ sThrown' = Some([at |-> "summary", msg |-> msg])
    /\ sResp' = Some(CatchResponse(msg))
    /\ sPc' = "done"
    /\ UNCHANGED <<apiKeySet, sReq, sCalls, sSummary, sHighlightText, call>>
    /\ UNCHANGED cVars

\* the second model call returns and its text is h
HighlightCallReturns(h) ==
    /\ sPc = "highlightCall"
    /\ sHighlightText' = Some(h)
    /\ sResp' = Some([status |-> 200,
                      body |-> SummaryBody(Val(Val(sReq).text), Val(sSummary),
                                           ParseHighlights(h))])
    /\ sPc' = "done"
    /\ UNCHANGED <<apiKeySet, sReq, sCalls, sSummary, sThrown, call>>
    /\ UNCHANGED cVars

\* the second model call returns but highlightResponse.text() throws, inside
\* the inner try
HighlightTextThrows(msg) ==
    /\ sPc = "highlightCall"
    /\ sThrown' = Some([at |-> "highlightText", msg |-> msg])
    /\ sResp' = Some([status |-> 200,
                      body |-> SummaryBody(Val(Val(sReq).text), Val(sSummary),
                                           DefaultHighlights)])
    /\ sPc' = "done"
    /\ UNCHANGED <<apiKeySet, sReq, sCalls, sSummary, sHighlightText, call>>
    /\ UNCHANGED cVars

\* the second model call itself throws: it is awaited outside the inner try
HighlightCallThrows(msg) ==
    /\ sPc = "highlightCall"
    /\ sThrown' = Some([at |-> "highlightCall", msg |-> msg])
    /\ sResp' = Some(CatchResponse(msg))
    /\ sPc' = "done"
    /\ UNCHANGED <<apiKeySet, sReq, sCalls, sSummary, sHighlightText, call>>
    /\ UNCHANGED cVars

----------------------------------------------------------------------------
(* Files and extraction *)

TxtType == "text/plain"
DocxType == "application/vnd.openxmlformats-officedocument.wordprocessingml.document"
PdfType == "application/pdf"

\* 10 * 1024 * 1024
MaxFileSize == 10 * 1024 * 1024

NoTextExtractedMsg == "No text could be extracted from the file"

\* the outcome of a function that returns a value or throws an Error
Returned(v) == [ok |-> TRUE, value |-> v]
Threw(msg) == [ok |-> FALSE, error |-> msg]

(* A file is [name, type, size, text]; name is a sequence of characters,    *)
(* text is what decoding its bytes                                         *)
(* yields (file.text(), buffer.toString('utf-8')) or, for a DOCX file,     *)
(* the raw text that mammoth.extractRawText finds in it.                   *)

\* lib/fileExtractor.ts
extractTextFromFile(file) ==
    IF file.type = DocxType THEN Threw("DOCX processing requires server-side extraction")
    ELSE IF file.type # TxtType THEN Threw("Unsupported file type")
    ELSE IF TextLen(file.text) = 0 \/ TextLen(Trim(file.text)) = 0
    THEN Threw(NoTextExtractedMsg)
    ELSE Returned([text |-> Truncate(file.text),
                   wordCount |-> WordCount(Truncate(file.text)),
                   fileType |-> file.type,
                   fileName |-> file.name,
                   fileSize |-> file.size])

\* /api/upload, the branch taken when the form has a non-empty extractedText
PreExtracted(text) ==
    [status |-> 200,
     body |-> [text |-> text,
               wordCount |-> WordCount(text),
               fileType |-> "text/plain",
               fileName |-> "document.txt",
               fileSize |-> 0]]

\* a faulty ExtractedResponse: blank text is not refused
ExtractedResponseAnyText(file, text) ==
    [status |-> 200,
     body |-> [success |-> TRUE,
               text |-> Truncate(text),
               filename |-> file.name,
               fileSize |-> file.size,
               wordCount |-> WordCount(Truncate(text))]]

\* /api/upload, the inner try block: text is the file's extracted text
ExtractedResponse(file, text) ==
    IF TextLen(text) = 0 \/ TextLen(Trim(text)) = 0
    THEN ErrorResponse(400, NoTextExtractedMsg)
    ELSE [status |-> 200,
          body |-> [success |-> TRUE,
                    text |-> Truncate(text),
                    filename |-> file.name,
                    fileSize |-> file.size,
                    wordCount |-> WordCount(Truncate(text))]]

\* a faulty /api/upload: the size of the file is not checked
UploadRouteNoSizeCheck(file, field, fault) ==
    IF fault = "formData" THEN ErrorResponse(500, "File upload failed")
    ELSE IF ~IsNull(field) /\ TextLen(Val(field)) > 0 THEN PreExtracted(Val(field))
    ELSE IF IsNull(file) THEN ErrorResponse(400, "No file uploaded")
    ELSE IF Val(file).type \notin {DocxType, TxtType}
    THEN ErrorResponse(400, "Invalid file type. Please upload DOCX or TXT files for server-side processing.")
    ELSE IF Val(file).type = DocxType /\ fault = "conversion"
    THEN ErrorResponse(500, "Failed to extract text from file")
    ELSE ExtractedResponse(Val(file), Val(file).text)

\* a faulty /api/upload: the file is looked at before the extractedText field
UploadRouteFileFirst(file, field, fault) ==
    IF fault = "formData" THEN ErrorResponse(500, "File upload failed")
    ELSE IF IsNull(file) THEN ErrorResponse(400, "No file uploaded")
    ELSE IF ~IsNull(field) /\ TextLen(Val(field)) > 0 THEN PreExtracted(Val(field))
    ELSE ExtractedResponse(Val(file), Val(file).text)

(* /api/upload.  file and field are the optional form entries 'file' and   *)
(* 'extractedText'; fault says what throws: "formData" (reading the        *)
(* form), "conversion" (mammoth.extractRawText) or "none".                 *)
UploadRoute(file, field, fault) ==
    IF fault = "formData" THEN ErrorResponse(500, "File upload failed")
    ELSE IF ~IsNull(field) /\ TextLen(Val(field)) > 0 THEN PreExtracted(Val(field))
    ELSE IF IsNull(file) THEN ErrorResponse(400, "No file uploaded")
    ELSE IF Val(file).type \notin {DocxType, TxtType}
    THEN ErrorResponse(400, "Invalid file type. Please upload DOCX or TXT files for server-side processing.")
    ELSE IF Val(file).size > MaxFileSize THEN ErrorResponse(400, "File too large")
    ELSE IF Val(file).type = DocxType /\ fault = "conversion"
    THEN ErrorResponse(500, "Failed to extract text from file")
    ELSE ExtractedResponse(Val(file), Val(file).text)

\* the document texts, files and faults that the calls are tried on
DocTexts == TextsOver({"a", " "}, {1, TextCap - 1, TextCap, MaxFileSize + 1}, MaxRuns)

\* a text file has one byte per character of the model (so some text files
\* are over the size limit); the size of another file is unrelated to the
\* text in it
Files ==
    {[name |-> <<"d", "o", "c">>, type |-> TxtType, size |-> TextLen(t), text |-> t] : t \in DocTexts}
    \cup {[name |-> <<"d", "o", "c">>, type |-> ty, size |-> sz, text |-> t] :
            ty \in {DocxType, PdfType},
            sz \in {1024, MaxFileSize + 1},
            t \in DocTexts}

Faults == {"none", "formData", "conversion"}

NoCall == [op |-> "none", file |-> Null, field |-> Null, fault |-> "none", result |-> Null]

\* extractTextFromFile is called with a file
CallExtractTextFromFile ==
    /\ call = NoCall
    /\ \E f \in Files :
        call' = [op |-> "extractTextFromFile", file |-> Some(f), field |-> Null,
                 fault |-> "none", result |-> Some(extractTextFromFile(f))]
    /\ UNCHANGED sVars
    /\ UNCHANGED stVars
    /\ UNCHANGED cVars

\* /api/upload receives a multipart form
PostUpload ==
    /\ call = NoCall
    /\ \E file \in {Null} \cup {Some(g) : g \in Files},
          field \in {Null} \cup {Some(t) : t \in DocTexts},
          fault \in Faults :
        call' = [op |-> "upload", file |-> file, field |-> field, fault |-> fault,
                 result |-> Some(UploadRoute(file, field, fault))]
    /\ UNCHANGED sVars
    /\ UNCHANGED stVars
    /\ UNCHANGED cVars

----------------------------------------------------------------------------
(* FileUpload and DocumentSummarizer.handleFileSelect *)

\* the dropzone of FileUpload is rendered (no file is selected) and takes
\* pointer input (nothing is being processed)
DropzoneOpen == activeTab = "upload" /\ IsNull(selectedFile) /\ ~isProcessing

\* the options panel with the Generate Summary button is rendered
OptionsShown == activeTab = "upload" /\ extractedText # <<>> /\ IsNull(summaryResult)

\* FileUpload.removeFile: the X button of the file card, rendered while
\* nothing is being processed; the state of DocumentSummarizer is not touched
RemoveFile ==
    /\ activeTab = "upload"
    /\ ~IsNull(selectedFile)
    /\ ~isProcessing
    /\ selectedFile' = Null
    /\ UNCHANGED <<uiVars, fVars, oVars, user, gVars, dbVars, call>>
    /\ UNCHANGED sVars
    /\ UNCHANGED stVars
    /\ UNCHANGED histVars

\* FileUpload.onDrop with an accepted file, then handleFileSelect up to its
\* first await: the state is reset, then a text file is read locally and any
\* other file goes to the server
HandleFileSelect(file) ==
    /\ DropzoneOpen
    /\ hPc = "idle"
    /\ selectedFile' = Some(file)
    /\ isProcessing' = TRUE
    /\ error' = ""
    /\ currentFile' = Some(file)
    /\ summaryResult' = Null
    /\ hFile' = Some(file)
    /\ hResult' = Null
    /\ hPc' = IF file.type = TxtType THEN "readText" ELSE "fetch"
    /\ UNCHANGED <<extractedText, oVars, user, gVars, dbVars, call>>
    /\ UNCHANGED sVars
    /\ UNCHANGED stVars
    /\ UNCHANGED histVars

\* file.text() resolves with non-blank text: the inline path ends the handler
ReadTextDone ==
    /\ hPc = "readText"
    /\ ~(TextLen(Val(hFile).text) = 0 \/ TextLen(Trim(Val(hFile).text)) = 0)
    /\ hResult' = Some([text |-> Truncate(Val(hFile).text),
                        wordCount |-> WordCount(Val(hFile).text),
                        fileType |-> Val(hFile).type,
                        fileName |-> Val(hFile).name,
                        fileSize |-> Val(hFile).size])
    /\ extractedText' = Truncate(Val(hFile).text)
    /\ isProcessing' = FALSE
    /\ hPc' = "idle"
    /\ UNCHANGED <<summaryResult, error, currentFile, hFile, oVars, user, selectedFile,
                   gVars, dbVars, call>>
    /\ UNCHANGED sVars
    /\ UNCHANGED stVars
    /\ UNCHANGED histVars

\* a faulty ReadTextFails: the client-side extraction fails after it has
\* assigned extractionResult
ReadTextFailsKeepsResult(rejected) ==
    /\ hPc = "readText"
    /\ rejected \/ TextLen(Val(hFile).text) = 0 \/ TextLen(Trim(Val(hFile).text)) = 0
    /\ hResult' = Some([text |-> Truncate(Val(hFile).text),
                        wordCount |-> WordCount(Val(hFile).text),
                        fileType |-> Val(hFile).type,
                        fileName |-> Val(hFile).name,
                        fileSize |-> Val(hFile).size])
    /\ hPc' = "fetch"
    /\ UNCHANGED <<uiVars, hFile, oVars, user, selectedFile, gVars, dbVars, call>>
    /\ UNCHANGED sVars
    /\ UNCHANGED stVars
    /\ UNCHANGED histVars

\* file.text() rejects, or the text is blank: the inner catch falls through
\* to the server request
ReadTextFails(rejected) ==
    /\ hPc = "readText"
    /\ rejected \/ TextLen(Val(hFile).text) = 0 \/ TextLen(Trim(Val(hFile).text)) = 0
    /\ hPc' = "fetch"
    /\ UNCHANGED <<uiVars, hFile, hResult, oVars, user, selectedFile, gVars, dbVars, call>>
    /\ UNCHANGED sVars
    /\ UNCHANGED stVars
    /\ UNCHANGED histVars

\* the form the handler sends: the file, and extractionResult.text if there is one
UploadField(result) ==
    IF ~IsNull(result) /\ TextLen(Val(result).text) > 0
    THEN Some(Val(result).text) ELSE Null

\* the /api/upload request is answered; call keeps the exchange
FetchUploadReturns(fault) ==
    /\ hPc = "fetch"
    /\ LET resp == UploadRoute(hFile, UploadField(hResult), fault)
       IN  /\ call' = [op |-> "upload", file |-> hFile, field |-> UploadField(hResult),
                       fault |-> fault, result |-> Some(resp)]
           /\ IF resp.status = 200
              THEN /\ extractedText' = resp.body.text
                   /\ UNCHANGED error
              ELSE /\ error' = IF resp.error = "" THEN "Failed to process file"
                                                  ELSE resp.error
                   /\ UNCHANGED extractedText
    /\ isProcessing' = FALSE
    /\ hPc' = "idle"
    /\ UNCHANGED <<summaryResult, currentFile, hFile, hResult, oVars, user, selectedFile,
                   gVars, dbVars>>
    /\ UNCHANGED sVars
    /\ UNCHANGED stVars
    /\ UNCHANGED histVars

\* the /api/upload request fails in the network: fetch rejects
FetchUploadRejects(msg) ==
    /\ hPc = "fetch"
    /\ call' = [op |-> "upload", file |-> hFile, field |-> UploadField(hResult),
                fault |-> "network", result |-> Null]
    /\ error' = msg
    /\ isProcessing' = FALSE
    /\ hPc' = "idle"
    /\ UNCHANGED <<extractedText, summaryResult, currentFile, hFile, hResult, oVars, user,
                   selectedFile, gVars, dbVars>>
    /\ UNCHANGED sVars
    /\ UNCHANGED stVars
    /\ UNCHANGED histVars

----------------------------------------------------------------------------
(* DocumentSummarizer: the summarization options *)

\* the Summary Type select
SetSummaryType(t) ==
    /\ OptionsShown
    /\ summaryType' = t
    /\ UNCHANGED <<uiVars, fVars, customLength, tone, user, selectedFile, gVars, dbVars,
                   call>>
    /\ UNCHANGED sVars
    /\ UNCHANGED stVars
    /\ UNCHANGED histVars

\* the length input, rendered for the custom type: parseInt of what is typed
SetCustomLength(n) ==
    /\ OptionsShown
    /\ summaryType = "custom"
    /\ customLength' = n
    /\ UNCHANGED <<uiVars, fVars, summaryType, tone, user, selectedFile, gVars, dbVars,
                   call>>
    /\ UNCHANGED sVars
    /\ UNCHANGED stVars
    /\ UNCHANGED histVars

\* the Tone select
SetTone(t) ==
    /\ OptionsShown
    /\ tone' = t
    /\ UNCHANGED <<uiVars, fVars, summaryType, customLength, user, selectedFile, gVars,
                   dbVars, call>>
    /\ UNCHANGED sVars
    /\ UNCHANGED stVars
    /\ UNCHANGED histVars

----------------------------------------------------------------------------
(* DocumentSummarizer.handleSummarize *)

\* /api/summarize as its caller sees it; out says how the two model calls
\* end: out.summary is the first call's text (Null: the call throws),
\* out.highlights the second call's text (Null: the call throws)
SummarizeRoute(req, keySet, out) ==
    IF ~IsNull(Validate(req, keySet)) THEN Val(Validate(req, keySet))
    ELSE IF IsNull(out.summary) THEN CatchResponse("summary")
    ELSE IF IsNull(out.highlights) THEN CatchResponse("highlights")
    ELSE [status |-> 200,
          body |-> SummaryBody(Val(req.text), Val(out.summary),
                               ParseHighlights(Val(out.highlights)))]

\* the request body that handleSummarize sends; JSON.stringify drops the
\* undefined customLength
SummarizeRequest(ctx) ==
    [text |-> Some(ctx.text),
     summaryType |-> Some(ctx.summaryType),
     customLength |-> IF ctx.summaryType = "custom" THEN Some(ctx.customLength) ELSE Null,
     tone |-> Some(ctx.tone)]

\* originalText keeps the first 1000 characters
OriginalTextCap == 1000

\* if (user && currentFile)
ShouldSave(u, file) == ~IsNull(u) /\ ~IsNull(file)

\* a faulty HistoryRecord: the whole text is stored
HistoryRecordWholeText(ctx, result, t) ==
    [id |-> t,
     userId |-> Val(ctx.user).uid,
     fileName |-> Val(ctx.file).name,
     fileSize |-> Val(ctx.file).size,
     fileType |-> Val(ctx.file).type,
     originalText |-> ctx.text,
     summary |-> result.summary,
     summaryType |-> ctx.summaryType,
     tone |-> ctx.tone,
     customLength |-> IF ctx.summaryType = "custom" THEN Some(ctx.customLength) ELSE Null,
     originalWordCount |-> result.originalWordCount,
     summaryWordCount |-> result.summaryWordCount,
     compressionRatio |-> result.compressionRatio,
     highlights |-> result.highlights,
     createdAt |-> t]

\* a faulty HistoryRecord: the document is keyed by its file and text, so
\* saving the same summary again overwrites it
HistoryRecordKeyed(ctx, result, t) ==
    [id |-> 1,
     userId |-> Val(ctx.user).uid,
     fileName |-> Val(ctx.file).name,
     fileSize |-> Val(ctx.file).size,
     fileType |-> Val(ctx.file).type,
     originalText |-> Substring0(ctx.text, OriginalTextCap),
     summary |-> result.summary,
     summaryType |-> ctx.summaryType,
     tone |-> ctx.tone,
     customLength |-> IF ctx.summaryType = "custom" THEN Some(ctx.customLength) ELSE Null,
     originalWordCount |-> result.originalWordCount,
     summaryWordCount |-> result.summaryWordCount,
     compressionRatio |-> result.compressionRatio,
     highlights |-> result.highlights,
     createdAt |-> 1]

\* the document that addDoc creates; t is the id and the server timestamp
\* the store gives it
HistoryRecord(ctx, result, t) ==
    [id |-> t,
     userId |-> Val(ctx.user).uid,
     fileName |-> Val(ctx.file).name,
     fileSize |-> Val(ctx.file).size,
     fileType |-> Val(ctx.file).type,
     originalText |-> Substring0(ctx.text, OriginalTextCap),
     summary |-> result.summary,
     summaryType |-> ctx.summaryType,
     tone |-> ctx.tone,
     customLength |-> IF ctx.summaryType = "custom" THEN Some(ctx.customLength) ELSE Null,
     originalWordCount |-> result.originalWordCount,
     summaryWordCount |-> result.summaryWordCount,
     compressionRatio |-> result.compressionRatio,
     highlights |-> result.highlights,
     createdAt |-> t]

\* gCtx while handleSummarize is not running
NoCtx == [text |-> <<>>, summaryType |-> "short", customLength |-> 200, tone |-> "neutral",
          user |-> Null, file |-> Null]

\* the Generate Summary button: the handler closes over the state of the
\* render it was created in and sends the request
HandleSummarize ==
    /\ OptionsShown
    /\ ~isProcessing
    /\ gPc = "idle"
    /\ sent < MaxRequests
    /\ isProcessing' = TRUE
    /\ error' = ""
    /\ gCtx' = [text |-> extractedText, summaryType |-> summaryType,
                customLength |-> customLength, tone |-> tone, user |-> user,
                file |-> currentFile]
    /\ gResp' = Null
    /\ sent' = sent + 1
    /\ gPc' = "fetch"
    /\ UNCHANGED <<extractedText, summaryResult, currentFile, fVars, oVars, user,
                   selectedFile, dbVars, call>>
    /\ UNCHANGED sVars
    /\ UNCHANGED stVars
    /\ UNCHANGED histVars

\* the /api/summarize request is answered: an error response ends the
\* handler, a 200 response is shown and then, with a user and a current
\* file, saved
SummarizeReturns(out) ==
    /\ gPc = "fetch"
    /\ LET resp == SummarizeRoute(SummarizeRequest(gCtx), apiKeySet, out)
       IN  IF resp.status = 200
           THEN /\ summaryResult' = Some(resp.body)
                /\ UNCHANGED error
                /\ IF ShouldSave(gCtx.user, gCtx.file)
                   THEN /\ gPc' = "addDoc"
                        /\ gResp' = Some(resp)
                        /\ UNCHANGED <<isProcessing, gCtx>>
                   ELSE /\ gPc' = "idle"
                        /\ isProcessing' = FALSE
                        /\ gCtx' = NoCtx
                        /\ gResp' = Null
           ELSE /\ error' = IF resp.error = "" THEN "Failed to generate summary"
                                               ELSE resp.error
                /\ isProcessing' = FALSE
                /\ gPc' = "idle"
                /\ gCtx' = NoCtx
                /\ gResp' = Null
                /\ UNCHANGED summaryResult
    /\ UNCHANGED <<extractedText, currentFile, fVars, oVars, user, selectedFile, sent,
                   dbVars, call>>
    /\ UNCHANGED sVars
    /\ UNCHANGED stVars
    /\ UNCHANGED histVars

\* the /api/summarize request fails in the network: fetch rejects
SummarizeRejects(msg) ==
    /\ gPc = "fetch"
    /\ error' = msg
    /\ isProcessing' = FALSE
    /\ gPc' = "idle"
    /\ gCtx' = NoCtx
    /\ gResp' = Null
    /\ UNCHANGED <<extractedText, summaryResult, currentFile, fVars, oVars, user,
                   selectedFile, sent, dbVars, call>>
    /\ UNCHANGED sVars
    /\ UNCHANGED stVars
    /\ UNCHANGED histVars

\* the awaited addDoc resolves: the document is in the store
AddDocResolves ==
    /\ gPc = "addDoc"
    /\ store' = store \cup {HistoryRecord(gCtx, Val(gResp).body, clock + 1)}
    /\ clock' = clock + 1
    /\ isProcessing' = FALSE
    /\ gPc' = "idle"
    /\ gCtx' = NoCtx
    /\ gResp' = Null
    /\ UNCHANGED <<extractedText, summaryResult, error, currentFile, fVars, oVars, user,
                   selectedFile, sent, call>>
    /\ UNCHANGED sVars
    /\ UNCHANGED stVars
    /\ UNCHANGED histVars

\* a faulty AddDocRejects: the finally block is not reached
AddDocRejectsStaysBusy ==
    /\ gPc = "addDoc"
    /\ gPc' = "idle"
    /\ gCtx' = NoCtx
    /\ gResp' = Null
    /\ UNCHANGED <<uiVars, fVars, oVars, user, selectedFile, sent, dbVars, call>>
    /\ UNCHANGED sVars
    /\ UNCHANGED stVars
    /\ UNCHANGED histVars

\* a faulty AddDocRejects: the failure of the write is shown to the user
AddDocRejectsShown ==
    /\ gPc = "addDoc"
    /\ error' = "Failed to save to Firestore"
    /\ isProcessing' = FALSE
    /\ gPc' = "idle"
    /\ gCtx' = NoCtx
    /\ gResp' = Null
    /\ UNCHANGED <<extractedText, summaryResult, currentFile, fVars, oVars, user,
                   selectedFile, sent, dbVars, call>>
    /\ UNCHANGED sVars
    /\ UNCHANGED stVars
    /\ UNCHANGED histVars

\* the awaited addDoc rejects: the inner catch logs the failure
AddDocRejects ==
    /\ gPc = "addDoc"
    /\ isProcessing' = FALSE
    /\ gPc' = "idle"
    /\ gCtx' = NoCtx
    /\ gResp' = Null
    /\ UNCHANGED <<extractedText, summaryResult, error, currentFile, fVars, oVars, user,
                   selectedFile, sent, dbVars, call>>
    /\ UNCHANGED sVars
    /\ UNCHANGED stVars
    /\ UNCHANGED histVars

----------------------------------------------------------------------------
(* HistoryDashboard *)

UpperCase == <<"A", "B", "C", "D", "E", "F", "G", "H", "I", "J", "K", "L", "M",
               "N", "O", "P", "Q", "R", "S", "T", "U", "V", "W", "X", "Y", "Z">>
LowerCase == <<"a", "b", "c", "d", "e", "f", "g", "h", "i", "j", "k", "l", "m",
               "n", "o", "p", "q", "r", "s", "t", "u", "v", "w", "x", "y", "z">>

\* toLowerCase of a string kept as a sequence of characters
ToLowerCase(str) ==
    [i \in 1..Len(str) |->
        IF \E k \in 1..Len(UpperCase) : UpperCase[k] = str[i]
        THEN LowerCase[CHOOSE k \in 1..Len(UpperCase) : UpperCase[k] = str[i]]
        ELSE str[i]]

\* str.includes(q)
Includes(str, q) ==
    \E i \in 0..(Len(str) - Len(q)) : \A j \in 1..Len(q) : str[i + j] = q[j]

\* the characters of a text
RECURSIVE Chars(_)
Chars(t) ==
    IF t = <<>> THEN <<>> ELSE [i \in 1..t[1].n |-> t[1].ch] \o Chars(Tail(t))

\* the test of the filter effect: the query is in the file name or in the
\* summary, whatever the case of the letters
Matches(item, q) ==
    \/ Includes(ToLowerCase(item.fileName), ToLowerCase(q))
    \/ Includes(ToLowerCase(Chars(item.summary)), ToLowerCase(q))

\* the filter effect: what filteredItems becomes for historyItems and searchQuery
Filter(items, q) ==
    IF \A i \in 1..Len(q) : IsWs(q[i]) THEN items
    ELSE SelectSeq(items, LAMBDA item : Matches(item, q))

\* orderBy('createdAt', 'desc')
RECURSIVE NewestFirst(_)
NewestFirst(docs) ==
    IF docs = {} THEN <<>>
    ELSE LET newest == CHOOSE d \in docs : \A e \in docs : e.createdAt <= d.createdAt
         IN  <<newest>> \o NewestFirst(docs \ {newest})

\* a faulty QueryHistory: the query has no where clause
QueryHistoryAnyUser(docs, u) == NewestFirst(docs)

\* the items that the query of fetchHistory finds for user u
QueryHistory(docs, u) == NewestFirst({d \in docs : d.userId = u.uid})

\* the fetch effect runs after every render: the fetchHistory calls that are
\* running once the component has rendered again
Refetch(running, docs) ==
    IF IsNull(user) THEN running ELSE running \cup {QueryHistory(docs, Val(user))}

\* the number of queries issued once the fetch effect has run again
Issued(n) ==
    IF IsNull(user) \/ n = MaxQueries THEN n ELSE n + 1

\* the items of a sequence other than the one with this id
WithoutId(items, id) == SelectSeq(items, LAMBDA item : item.id # id)

\* the History tab is opened while no handler of the upload tab is running:
\* DocumentSummarizer and FileUpload unmount and their state is gone,
\* HistoryDashboard mounts and its effect calls fetchHistory
ShowHistory ==
    /\ activeTab = "upload"
    /\ hPc = "idle"
    /\ gPc = "idle"
    /\ activeTab' = "history"
    /\ isProcessing' = FALSE
    /\ extractedText' = <<>>
    /\ summaryResult' = Null
    /\ error' = ""
    /\ currentFile' = Null
    /\ summaryType' = "short"
    /\ customLength' = 200
    /\ tone' = "neutral"
    /\ selectedFile' = Null
    /\ fetches' = Refetch(fetches, store)
    /\ queries' = Issued(queries)
    /\ UNCHANGED <<historyItems, filteredItems, searchQuery, isLoading, selectedItem,
                   deletes>>
    /\ UNCHANGED <<fVars, gVars, user, dbVars, call>>
    /\ UNCHANGED sVars
    /\ UNCHANGED stVars

\* getDocs of a running fetchHistory resolves with the items it found
FetchHistoryResolves ==
    \E items \in fetches :
        /\ historyItems' = items
        /\ filteredItems' = Filter(items, searchQuery)
        /\ isLoading' = FALSE
        /\ fetches' = Refetch(fetches \ {items}, store)
        /\ queries' = Issued(queries)
        /\ UNCHANGED <<activeTab, searchQuery, selectedItem, deletes>>
        /\ UNCHANGED <<upVars, user, dbVars, call>>
        /\ UNCHANGED sVars
        /\ UNCHANGED stVars

\* getDocs of a running fetchHistory rejects: the failure is logged; the
\* component renders again only if it was loading
FetchHistoryRejects ==
    \E items \in fetches :
        /\ isLoading' = FALSE
        /\ fetches' = IF isLoading THEN Refetch(fetches \ {items}, store)
                                  ELSE fetches \ {items}
        /\ queries' = IF isLoading THEN Issued(queries) ELSE queries
        /\ UNCHANGED <<activeTab, historyItems, filteredItems, searchQuery, selectedItem,
                       deletes>>
        /\ UNCHANGED <<upVars, user, dbVars, call>>
        /\ UNCHANGED sVars
        /\ UNCHANGED stVars

\* the list of HistoryDashboard is rendered
ListShown == activeTab = "history" /\ ~isLoading

\* the search input
SetSearchQuery(q) ==
    /\ ListShown
    /\ q # searchQuery
    /\ searchQuery' = q
    /\ filteredItems' = Filter(historyItems, q)
    /\ fetches' = Refetch(fetches, store)
    /\ queries' = Issued(queries)
    /\ UNCHANGED <<activeTab, historyItems, isLoading, selectedItem, deletes>>
    /\ UNCHANGED <<upVars, user, dbVars, call>>
    /\ UNCHANGED sVars
    /\ UNCHANGED stVars

\* a click on an item of the list
SelectItem ==
    /\ ListShown
    /\ \E i \in 1..Len(filteredItems) :
        /\ selectedItem' = Some(filteredItems[i])
        /\ fetches' = Refetch(fetches, store)
        /\ queries' = Issued(queries)
        /\ UNCHANGED <<activeTab, historyItems, filteredItems, searchQuery, isLoading,
                       deletes>>
        /\ UNCHANGED <<upVars, user, dbVars, call>>
        /\ UNCHANGED sVars
        /\ UNCHANGED stVars

\* a click on the delete button of an item of the list: deleteItem runs
\* up to its await, with the selectedItem of the render it was created in
DeleteItem ==
    /\ ListShown
    /\ Cardinality(deletes) < MaxDeletes
    /\ \E i \in 1..Len(filteredItems) :
        /\ deletes' = deletes \cup {[itemId |-> filteredItems[i].id,
                                     selectedItem |-> selectedItem]}
        /\ UNCHANGED <<activeTab, historyItems, filteredItems, searchQuery, isLoading,
                       selectedItem, fetches, queries>>
        /\ UNCHANGED <<upVars, user, dbVars, call>>
        /\ UNCHANGED sVars
        /\ UNCHANGED stVars

\* deleteDoc of a running deleteItem resolves: the document is gone from the
\* store, the item is taken out of historyItems and the selection is cleared
\* if the call had closed over a selectedItem with this id
DeleteResolves ==
    \E d \in deletes :
        /\ store' = {doc \in store : doc.id # d.itemId}
        /\ historyItems' = WithoutId(historyItems, d.itemId)
        /\ filteredItems' = Filter(WithoutId(historyItems, d.itemId), searchQuery)
        /\ selectedItem' = IF ~IsNull(d.selectedItem) /\ Val(d.selectedItem).id = d.itemId
                           THEN Null ELSE selectedItem
        /\ deletes' = deletes \ {d}
        /\ fetches' = Refetch(fetches, store')
        /\ queries' = Issued(queries)
        /\ UNCHANGED <<activeTab, searchQuery, isLoading>>
        /\ UNCHANGED <<upVars, user, clock, call>>
        /\ UNCHANGED sVars
        /\ UNCHANGED stVars

\* deleteDoc of a running deleteItem rejects: the failure is logged
DeleteRejects ==
    \E d \in deletes :
        /\ deletes' = deletes \ {d}
        /\ UNCHANGED <<activeTab, historyItems, filteredItems, searchQuery, isLoading,
                       selectedItem, fetches, queries>>
        /\ UNCHANGED <<upVars, user, dbVars, call>>
        /\ UNCHANGED sVars
        /\ UNCHANGED stVars

----------------------------------------------------------------------------
(* Dashboard: the statistics *)

\* useState({ documentsProcessed: 0, timeSaved: 0 })
NoStats == [documentsProcessed |-> 0, timeSaved |-> 0]

\* the documents that the query of fetchStats finds for user u
UserDocs(docs, u) == {d \in docs : d.userId = u.uid}

\* Math.ceil((data.originalWordCount || 0) / 100)
EstimatedReadingTime(d) == (d.originalWordCount + 99) \div 100

\* totalTimeSaved over the documents found
RECURSIVE TotalTimeSaved(_)
TotalTimeSaved(docs) ==
    IF docs = {} THEN 0
    ELSE LET d == CHOOSE x \in docs : TRUE
         IN  EstimatedReadingTime(d) + TotalTimeSaved(docs \ {d})

\* what fetchStats sets for the documents found
StatsOf(docs) ==
    [documentsProcessed |-> Cardinality(docs), timeSaved |-> TotalTimeSaved(docs)]

\* getDocs of fetchStats resolves
FetchStatsResolves ==
    /\ ~IsNull(statsCall)
    /\ Val(statsCall).pc = "fetch"
    /\ stats' = StatsOf(Val(statsCall).found)
    /\ statsCall' = Some([Val(statsCall) EXCEPT !.pc = "done"])
    /\ UNCHANGED <<upVars, histVars, user, dbVars, call>>
    /\ UNCHANGED sVars

\* getDocs of fetchStats rejects: the failure is logged
FetchStatsRejects ==
    /\ ~IsNull(statsCall)
    /\ Val(statsCall).pc = "fetch"
    /\ statsCall' = Some([Val(statsCall) EXCEPT !.pc = "failed"])
    /\ UNCHANGED <<upVars, histVars, user, dbVars, call, stats>>
    /\ UNCHANGED sVars

----------------------------------------------------------------------------
(* Inputs *)

SummaryTypes == {Null, Some("short"), Some("bullet"), Some("custom"), Some("detailed")}
CustomLengths == {Null, Some(0), Some(300)}
Tones == {Null, Some("neutral"), Some("professional"), Some("casual"),
          Some("academic"), Some("friendly")}
ErrMsgs == {"fetch failed", "API key not valid"}

\* texts sent to /api/summarize, and summaries
ReqTexts == TextsOver({"a", " "}, {1}, MaxReqRuns)

Requests ==
    [text : {Null} \cup {Some(t) : t \in ReqTexts},
     summaryType : SummaryTypes, customLength : CustomLengths, tone : Tones]

\* the requests of the client's default options
PlainRequests ==
    [text : {Some(t) : t \in ReqTexts},
     summaryType : {Some("short")}, customLength : {Null}, tone : {Some("neutral")}]

\* the files dropped on the client: the dropzone accepts text and DOCX files
\* of at most 10MB
NotesFile ==
    [name |-> <<"N", "o", "t", "e", "s">>, type |-> TxtType, size |-> 1,
     text |-> <<Run("a", 1)>>]
BlankFile ==
    [name |-> <<"B", "l", "a", "n", "k">>, type |-> TxtType, size |-> 1,
     text |-> <<Run(" ", 1)>>]
EmptyFile ==
    [name |-> <<"E", "m", "p", "t", "y">>, type |-> TxtType, size |-> 0, text |-> <<>>]
ReportFile ==
    [name |-> <<"R", "e", "p", "o", "r", "t">>, type |-> DocxType, size |-> 2048,
     text |-> <<Run("a", 1), Run(" ", TextCap)>>]
LongFile ==
    [name |-> <<"L", "o", "n", "g">>, type |-> TxtType, size |-> TextCap + 1,
     text |-> <<Run("a", 1), Run(" ", TextCap)>>]
ClientFiles == {NotesFile, BlankFile, EmptyFile, ReportFile}
LiveFiles == {NotesFile, ReportFile}

\* the options chosen on the client
ClientSummaryTypes == {"short", "bullet", "custom"}
ClientLengths == {300}
ClientTones == {"neutral", "academic"}

\* how the model calls of a client's /api/summarize request end
ClientOutcomes ==
    {[summary |-> Null, highlights |-> Null],
     [summary |-> Some(<<Run("a", 1)>>), highlights |-> Null],
     [summary |-> Some(<<Run("a", 1)>>), highlights |-> Some(<<>>)]}

User1 == [uid |-> "u1"]
User2 == [uid |-> "u2"]
Sessions == {Null, Some(User1)}

\* documents that handleSummarize has written in earlier sessions: two of
\* the user, the newest of somebody else
SavedRecord(u, file, t) ==
    HistoryRecord([text |-> Truncate(file.text), summaryType |-> "short",
                   customLength |-> 200, tone |-> "neutral", user |-> Some(u),
                   file |-> Some(file)],
                  SummaryBody(Truncate(file.text), <<Run("a", 1)>>, DefaultHighlights), t)
HistoryStores ==
    {{},
     {SavedRecord(User1, NotesFile, 1)},
     {SavedRecord(User1, NotesFile, 1), SavedRecord(User1, ReportFile, 2)},
     {SavedRecord(User1, NotesFile, 1), SavedRecord(User1, ReportFile, 2),
      SavedRecord(User2, NotesFile, 3)}}

\* the store when Dashboard mounts: nothing, or one document of the user
StatsStores == {{}, {SavedRecord(User1, NotesFile, 1)}}

\* what is typed in the search input
Queries == {<<>>, <<" ">>, <<"n", "O">>, <<"z">>}

HighlightTexts == UNION {[1..m -> HTokens] : m \in 0..MaxHLen}
HighlightSamples == {<<>>, <<"{", "}">>, <<"{", "A", "}">>}

----------------------------------------------------------------------------
(* Specifications *)

\* the state when the page has loaded, with the documents of earlier
\* sessions in the store
InitState(stores) ==
    /\ apiKeySet \in BOOLEAN
    /\ sPc = "idle"
    /\ sReq = Null
    /\ sCalls = <<>>
    /\ sSummary = Null
    /\ sHighlightText = Null
    /\ sThrown = Null
    /\ sResp = Null
    /\ call = NoCall
    /\ isProcessing = FALSE
    /\ extractedText = <<>>
    /\ summaryResult = Null
    /\ error = ""
    /\ currentFile = Null
    /\ hPc = "idle"
    /\ hFile = Null
    /\ hResult = Null
    /\ summaryType = "short"
    /\ customLength = 200
    /\ tone = "neutral"
    /\ user \in Sessions
    /\ selectedFile = Null
    /\ gPc = "idle"
    /\ gCtx = NoCtx
    /\ gResp = Null
    /\ sent = 0
    /\ store \in stores
    /\ clock = Cardinality(store)
    /\ activeTab = "upload"
    /\ historyItems = <<>>
    /\ filteredItems = <<>>
    /\ searchQuery = <<>>
    /\ isLoading = TRUE
    /\ selectedItem = Null
    /\ deletes = {}
    /\ fetches = {}
    /\ queries = 0
    /\ stats = NoStats
    /\ statsCall = IF IsNull(user) THEN Null
                   ELSE Some([pc |-> "fetch", found |-> UserDocs(store, Val(user))])

Init == InitState({{}})

\* one /api/summarize request with its two model calls
SummarizeNext(reqs, sums, htexts) ==
    \/ \E req \in reqs : PostSummarize(req)
    \/ \E msg \in ErrMsgs : PostSummarizeMalformed(msg)
    \/ \E summary \in sums : SummaryCallReturns(summary)
    \/ \E msg \in ErrMsgs : SummaryCallThrows(msg)
    \/ \E h \in htexts : HighlightCallReturns(h)
    \/ \E msg \in ErrMsgs : HighlightTextThrows(msg)
    \/ \E msg \in ErrMsgs : HighlightCallThrows(msg)

\* every request, a few highlight responses
SpecSummarize == Init /\ [][SummarizeNext(Requests, ReqTexts, HighlightSamples)]_vars

\* the default request, every highlight response
SpecHighlights == Init /\ [][SummarizeNext(PlainRequests, ReqTexts, HighlightTexts)]_vars

\* one call of extractTextFromFile or of /api/upload
ExtractNext ==
    \/ CallExtractTextFromFile
    \/ PostUpload

SpecExtract == Init /\ [][ExtractNext]_vars

\* FileUpload and handleFileSelect
UploadNext(files) ==
    \/ \E f \in files : HandleFileSelect(f)
    \/ RemoveFile
    \/ ReadTextDone
    \/ \E rejected \in BOOLEAN : ReadTextFails(rejected)
    \/ \E fault \in Faults : FetchUploadReturns(fault)
    \/ \E msg \in ErrMsgs : FetchUploadRejects(msg)

\* the options panel
OptionsNext ==
    \/ \E t \in ClientSummaryTypes : SetSummaryType(t)
    \/ \E n \in ClientLengths : SetCustomLength(n)
    \/ \E t \in ClientTones : SetTone(t)

\* handleSummarize
GenerateNext ==
    \/ HandleSummarize
    \/ \E out \in ClientOutcomes : SummarizeReturns(out)
    \/ \E msg \in ErrMsgs : SummarizeRejects(msg)
    \/ AddDocResolves
    \/ AddDocRejects

\* the upload tab with the default options
ClientNext ==
    \/ UploadNext(ClientFiles)
    \/ GenerateNext

SpecClient == Init /\ [][ClientNext]_vars

\* an awaited call of handleFileSelect or handleSummarize returns or throws
AwaitEnds ==
    \/ ReadTextDone
    \/ \E rejected \in BOOLEAN : ReadTextFails(rejected)
    \/ \E fault \in Faults : FetchUploadReturns(fault)
    \/ \E msg \in ErrMsgs : FetchUploadRejects(msg)
    \/ \E out \in ClientOutcomes : SummarizeReturns(out)
    \/ \E msg \in ErrMsgs : SummarizeRejects(msg)
    \/ AddDocResolves
    \/ AddDocRejects

\* the upload tab with a text file and a DOCX file
ProcessingNext ==
    \/ UploadNext(LiveFiles)
    \/ GenerateNext

\* every awaited call eventually returns or throws
SpecProcessing == Init /\ [][ProcessingNext]_vars /\ WF_vars(AwaitEnds)

\* the upload tab with one file and every option
SummarizerNext ==
    \/ UploadNext({LongFile})
    \/ OptionsNext
    \/ GenerateNext

SpecSummarizer == Init /\ [][SummarizerNext]_vars

\* the History tab
HistoryNext ==
    \/ ShowHistory
    \/ FetchHistoryResolves
    \/ FetchHistoryRejects
    \/ \E q \in Queries : SetSearchQuery(q)
    \/ SelectItem
    \/ DeleteItem
    \/ DeleteResolves
    \/ DeleteRejects

SpecHistory == InitState(HistoryStores) /\ [][HistoryNext]_vars

\* the statistics of Dashboard, with summaries made and documents deleted
StatsNext ==
    \/ FetchStatsResolves
    \/ FetchStatsRejects
    \/ UploadNext({NotesFile})
    \/ GenerateNext
    \/ ShowHistory
    \/ FetchHistoryResolves
    \/ DeleteItem
    \/ DeleteResolves

SpecStats == InitState(StatsStores) /\ [][StatsNext]_vars

Next ==
    \/ SummarizeNext(Requests, ReqTexts, HighlightSamples)
    \/ ExtractNext
    \/ ClientNext
    \/ OptionsNext
    \/ HistoryNext
    \/ FetchStatsResolves
    \/ FetchStatsRejects

Spec == Init /\ [][Next]_vars

----------------------------------------------------------------------------
(* Properties of /api/summarize *)

\* the text consists of whitespace only (or is empty)
AllWhitespace(t) == \A i \in 1..Len(t) : IsWs(t[i].ch)

\* the handler has answered with status st
Answered(st) == sPc = "done" /\ ~IsNull(sResp) /\ Val(sResp).status = st

\* the 200 response carries the summary of the first call and empty highlights
SummaryWithEmptyHighlights ==
    /\ Answered(200)
    /\ Val(sResp).body.summary = Val(sSummary)
    /\ Val(sResp).body.highlights = DefaultHighlights

\* C1: when the second model call fails by throwing (the call itself or the
\* reading of its text), the request still answers 200 with the summary of
\* the first call and three empty highlight arrays.
C1_HighlightFailureSwallowed ==
    (sPc = "done" /\ ~IsNull(sThrown)
        /\ Val(sThrown).at \in {"highlightCall", "highlightText"})
    => SummaryWithEmptyHighlights

\* C2: the model sees at most two prompts, the summary prompt first; the
\* highlight prompt is issued only once the summary call has returned; when
\* the summary call throws no highlight prompt is ever issued and the answer
\* is 500 with the fixed message, which is not the message of the error.
C2_CallsOrdered ==
    /\ Len(sCalls) <= 2
    /\ Len(sCalls) >= 1 => sCalls[1][Len(sCalls[1]) - 1].lit # HighlightLit
    /\ Len(sCalls) = 2 => /\ sCalls[2][1] = Lit(HighlightLit)
                          /\ ~IsNull(sSummary)
                          /\ (IsNull(sThrown) \/ Val(sThrown).at # "summary")
    /\ (~IsNull(sThrown) /\ Val(sThrown).at = "summary")
       => /\ Len(sCalls) = 1
          /\ IsNull(sSummary)
          /\ Answered(500)
          /\ Val(sResp) = [status |-> 500, error |-> SummarizeFailedMsg]
          /\ Val(sResp).error # Val(sThrown).msg

C2_Witness ==
    /\ sPc = "done"
    /\ ~IsNull(sThrown)
    /\ Val(sThrown).at = "summary"
    /\ Len(sCalls) = 1

\* the response text has a "{" with a "}" somewhere after it
HasBraces(h) == \E i, j \in 1..Len(h) : i < j /\ h[i] = "{" /\ h[j] = "}"

\* C3: when the highlight response has no brace-delimited substring, or the
\* matched substring is not valid JSON, the answer is 200 with the summary
\* and three empty highlight arrays.
C3_UnparsableHighlights ==
    (sPc = "done" /\ ~IsNull(sHighlightText)
        /\ (\/ ~HasBraces(Val(sHighlightText))
            \/ ~JsonParse(Val(JsonMatch(Val(sHighlightText)))).ok))
    => SummaryWithEmptyHighlights

C3_Witness ==
    /\ sPc = "done"
    /\ ~IsNull(sHighlightText)
    /\ HasBraces(Val(sHighlightText))
    /\ ~JsonParse(Val(JsonMatch(Val(sHighlightText)))).ok
    /\ SummaryWithEmptyHighlights

\* C4: every 200 response has a highlights object with exactly the fields
\* keywords, names and dates, each of them an array.
C4_HighlightsShape ==
    Answered(200) =>
        /\ DOMAIN Val(sResp).body.highlights = {"keywords", "names", "dates"}
        /\ \A f \in DOMAIN Val(sResp).body.highlights :
                Val(sResp).body.highlights[f].kind = "array"

\* C5: a request whose text is missing, empty or whitespace-only is answered
\* 400, a request with text but no credential is answered 500, the text
\* check coming first, and in neither case is a prompt handed to the model.
C5_ValidationErrors ==
    ~IsNull(sReq) =>
        LET text == Val(sReq).text
            blank == IsNull(text) \/ AllWhitespace(Val(text))
        IN  /\ blank => Answered(400) /\ sCalls = <<>>
            /\ (~blank /\ ~apiKeySet) => Answered(500) /\ sCalls = <<>>
            /\ (~blank /\ apiKeySet) => Len(sCalls) >= 1

C5_Witness ==
    /\ ~IsNull(sReq)
    /\ ~IsNull(Val(sReq).text)
    /\ Len(Val(Val(sReq).text)) = 1
    /\ AllWhitespace(Val(Val(sReq).text))
    /\ ~apiKeySet
    /\ Answered(400)

\* the template literals that appear in a prompt
TemplateLitsIn(p) ==
    {p[i].lit : i \in {j \in 1..Len(p) : p[j].kind = "lit"}}
        \cap {ShortLit, BulletLit, CustomLit1, DefaultLit}

\* the template literal that summaryType selects
ExpectedLit(type) ==
    IF type = Some("short") THEN ShortLit
    ELSE IF type = Some("bullet") THEN BulletLit
    ELSE IF type = Some("custom") THEN CustomLit1
    ELSE DefaultLit

\* the numbers a prompt asks for
NumbersIn(p) == {p[i].num : i \in {j \in 1..Len(p) : p[j].kind = "num"}}

\* the prompt uses the template of the request's summaryType and ends with the text
TemplateSelected ==
    /\ TemplateLitsIn(sCalls[1]) = {ExpectedLit(Val(sReq).summaryType)}
    /\ sCalls[1][Len(sCalls[1])] = Txt(Val(Val(sReq).text))

\* C6 as stated: the template follows summaryType, and for 'custom' the
\* number of words asked for is customLength whenever one is supplied, and
\* 200 when it is unset.
C6_Original ==
    Len(sCalls) >= 1 =>
        /\ TemplateSelected
        /\ NumbersIn(sCalls[1]) =
             IF Val(sReq).summaryType # Some("custom") THEN {}
             ELSE IF IsNull(Val(sReq).customLength) THEN {200}
             ELSE {Val(Val(sReq).customLength)}

\* C6 amended: the template follows summaryType, and for 'custom' the number
\* of words asked for is customLength when it is supplied and not 0, and 200
\* when it is unset or 0.
C6_PromptByType ==
    Len(sCalls) >= 1 =>
        /\ TemplateSelected
        /\ NumbersIn(sCalls[1]) =
             IF Val(sReq).summaryType # Some("custom") THEN {}
             ELSE IF IsNull(Val(sReq).customLength) \/ Val(Val(sReq).customLength) = 0
             THEN {200}
             ELSE {Val(Val(sReq).customLength)}

C6_Witness ==
    /\ Len(sCalls) >= 1
    /\ Val(sReq).summaryType = Some("custom")
    /\ Val(sReq).customLength = Some(0)
    /\ NumbersIn(sCalls[1]) = {200}

\* the three tones that have an instruction sentence
InstructedTones == {"professional", "casual", "academic"}

\* C7: the prompt starts with a tone instruction sentence exactly when tone is
\* professional, casual or academic, and then it is that tone's sentence, a
\* space and the type template; for tone neutral or no tone it is the bare
\* template.
C7_TonePrefix ==
    Len(sCalls) >= 1 =>
        LET req == Val(sReq)
            prompt == sCalls[1]
            template == Template(req.summaryType, req.customLength, Val(req.text))
            instructed == ~IsNull(req.tone) /\ Val(req.tone) \in InstructedTones
        IN  /\ instructed <=>
                prompt[1] \in {Lit(toneInstructions[t]) : t \in InstructedTones}
            /\ instructed =>
                prompt = <<Lit(toneInstructions[Val(req.tone)]), Lit(" ")>> \o template
            /\ (IsNull(req.tone) \/ req.tone = Some("neutral")) => prompt = template

C7_Witness ==
    /\ Len(sCalls) >= 1
    /\ Val(sReq).tone = Some("academic")
    /\ sCalls[1][1] = Lit("Use an academic and scholarly tone with precise language.")
    /\ Len(sCalls[1]) = 4

\* r is (1 - summary / original) * 100 rounded to the nearest integer, halves up
IsRounded(r, original, summary) ==
    /\ (2 * r - 1) * original <= 200 * (original - summary)
    /\ 200 * (original - summary) < (2 * r + 1) * original

\* C8: in every 200 response compressionRatio is
\* round((1 - summaryWordCount / originalWordCount) * 100) of the two counts
\* of that response (1000 and 100 give 90), and it is negative when the
\* summary count exceeds the original count by more than half a percent.
C8_CompressionRatio ==
    /\ CompressionRatio(1000, 100) = 90
    /\ Answered(200) =>
        LET body == Val(sResp).body
        IN  /\ body.originalWordCount >= 1
            /\ IsRounded(body.compressionRatio, body.originalWordCount,
                         body.summaryWordCount)
            /\ (200 * (body.summaryWordCount - body.originalWordCount)
                    > body.originalWordCount) => body.compressionRatio < 0

C8_Witness ==
    /\ Answered(200)
    /\ Val(sResp).body.originalWordCount = 3
    /\ Val(sResp).body.summaryWordCount = 1
    /\ Val(sResp).body.compressionRatio = 67

----------------------------------------------------------------------------
(* Properties of extraction *)

\* the first 100,000 characters of t followed by '...'
CappedWithMarker(t) == Concat(Substring0(t, TextCap), <<Run(".", 3)>>)

\* the number of maximal runs of non-whitespace characters of t
TokenCount(t) ==
    Cardinality({i \in 1..Len(t) : ~IsWs(t[i].ch) /\ (i = 1 \/ IsWs(t[i - 1].ch))})

\* the text that a call of /api/upload extracts from: the extractedText field
\* when the form has a non-empty one, the file's text otherwise
UploadInput(c) ==
    IF ~IsNull(c.field) /\ Val(c.field) # <<>> THEN Val(c.field) ELSE Val(c.file).text

\* the call c of /api/upload was answered 200
UploadOk(c) == c.op = "upload" /\ Val(c.result).status = 200

\* C9: an input text longer than 100,000 characters is extracted as its first
\* 100,000 characters followed by '...', by the inline text path of
\* handleFileSelect, by extractTextFromFile and by /api/upload whatever the
\* form holds.
C9_LongTextCapped ==
    /\ (hPc = "idle" /\ ~IsNull(hResult) /\ TextLen(Val(hFile).text) > TextCap)
       => extractedText = CappedWithMarker(Val(hFile).text)
    /\ (call.op = "extractTextFromFile" /\ Val(call.result).ok
            /\ TextLen(Val(call.file).text) > TextCap)
       => Val(call.result).value.text = CappedWithMarker(Val(call.file).text)
    /\ (UploadOk(call) /\ TextLen(UploadInput(call)) > TextCap)
       => Val(call.result).body.text = CappedWithMarker(UploadInput(call))

\* the text t is a plain-text input of C10: not blank, at most 100,000 characters
ShortPlainText(t) == ~AllWhitespace(t) /\ TextLen(t) <= TextCap

\* C10: for a non-blank plain-text input of at most 100,000 characters,
\* extractTextFromFile and /api/upload return the input text unchanged and a
\* wordCount that is the number of its non-empty whitespace-delimited tokens.
C10_ShortTextVerbatim ==
    /\ (call.op = "extractTextFromFile" /\ Val(call.file).type = TxtType
            /\ ShortPlainText(Val(call.file).text))
       => /\ Val(call.result).ok
          /\ Val(call.result).value.text = Val(call.file).text
          /\ Val(call.result).value.wordCount = TokenCount(Val(call.file).text)
    /\ (call.op = "upload" /\ IsNull(call.field) /\ ~IsNull(call.file)
            /\ Val(call.file).type = TxtType /\ ShortPlainText(Val(call.file).text)
            /\ call.fault # "formData")
       => /\ Val(call.result).status = 200
          /\ Val(call.result).body.text = Val(call.file).text
          /\ Val(call.result).body.wordCount = TokenCount(Val(call.file).text)
    /\ (UploadOk(call) /\ ~IsNull(call.field) /\ ShortPlainText(Val(call.field)))
       => /\ Val(call.result).body.text = Val(call.field)
          /\ Val(call.result).body.wordCount = TokenCount(Val(call.field))

C10_Witness ==
    /\ UploadOk(call)
    /\ IsNull(call.field)
    /\ Val(call.file).type = TxtType
    /\ TextLen(Val(call.file).text) = TextCap
    /\ Len(Val(call.file).text) = 2
    /\ IsWs(Val(call.file).text[1].ch)
    /\ Val(call.result).body.text = Val(call.file).text
    /\ Val(call.result).body.wordCount = 1

----------------------------------------------------------------------------
(* Properties of /api/upload *)

\* the call c of /api/upload carried a file and no pre-extracted text, and
\* its form could be read
FileOnly(c) ==
    /\ c.op = "upload"
    /\ ~IsNull(c.file)
    /\ (IsNull(c.field) \/ Val(c.field) = <<>>)
    /\ c.fault # "formData"

AllowedType(f) == f.type \in {DocxType, TxtType}

\* the conversion call of c (mammoth.extractRawText) throws
ConversionThrows(c) == Val(c.file).type = DocxType /\ c.fault = "conversion"

\* C13: given a file and no pre-extracted text, /api/upload answers 400 for
\* a media type outside {DOCX, text/plain}, for a size over 10MB and for a
\* text that is blank after trimming, 500 when the conversion call throws,
\* and 200 only for an allowed type, a size within the limit and a
\* non-blank text.
C13_UploadStatuses ==
    FileOnly(call) =>
        LET f == Val(call.file)
            st == Val(call.result).status
        IN  /\ st \in {200, 400, 500}
            /\ ~AllowedType(f) => st = 400
            /\ f.size > MaxFileSize => st = 400
            /\ (AllowedType(f) /\ f.size <= MaxFileSize /\ ConversionThrows(call))
               => st = 500
            /\ (AllowedType(f) /\ f.size <= MaxFileSize /\ ~ConversionThrows(call)
                    /\ AllWhitespace(f.text))
               => st = 400
            /\ st = 200
               => (AllowedType(f) /\ f.size <= MaxFileSize /\ ~AllWhitespace(f.text))

\* a text file over the size limit was refused
C13_Witness ==
    /\ FileOnly(call)
    /\ Val(call.file).type = TxtType
    /\ Val(call.file).size > MaxFileSize
    /\ ~AllWhitespace(Val(call.file).text)
    /\ Val(call.result).status = 400
    /\ Val(call.result).error = "File too large"

\* the fields that spec and FileExtractionResult give an extraction result
ResultFields == {"text", "wordCount", "fileType", "fileName", "fileSize"}

\* C14: every 200 response of /api/upload has the fields text, wordCount,
\* fileType, fileName and fileSize, on the file branch and on the
\* pre-extracted-text branch.
C14_ResponseFields ==
    UploadOk(call) => ResultFields \subseteq DOMAIN Val(call.result).body

\* C15: when the form carries a non-empty extractedText field (and can be
\* read), /api/upload answers 200 with that text unchanged, the number of its
\* non-empty whitespace-delimited tokens, fileType 'text/plain', fileName
\* 'document.txt' and fileSize 0, whatever the file entry is.
C15_PreExtractedShortCircuit ==
    (call.op = "upload" /\ ~IsNull(call.field) /\ Val(call.field) # <<>>
        /\ call.fault # "formData")
    => /\ Val(call.result).status = 200
       /\ Val(call.result).body
            = [text |-> Val(call.field),
               wordCount |-> TokenCount(Val(call.field)),
               fileType |-> "text/plain",
               fileName |-> "document.txt",
               fileSize |-> 0]

\* the short-circuit answered for a form whose file the file branch refuses
C15_Witness ==
    /\ call.op = "upload"
    /\ ~IsNull(call.field)
    /\ ~AllWhitespace(Val(call.field))
    /\ ~IsNull(call.file)
    /\ Val(call.file).type = PdfType
    /\ Val(call.file).size > MaxFileSize
    /\ Val(call.result).status = 200
    /\ Val(call.result).body.fileName = "document.txt"
    /\ Len(Val(call.field)) = 2
    /\ Val(call.result).body.wordCount = 1

----------------------------------------------------------------------------
(* Properties of the upload tab *)

\* a text file whose content is empty or whitespace only
BlankTextFile(f) == f.type = TxtType /\ AllWhitespace(f.text)

\* the extracted text that is held is the text of file f
HeldFrom(f) == extractedText # <<>> /\ extractedText = Truncate(f.text)

\* the step in which handleFileSelect finishes
FileSelectFinishes == hPc # "idle" /\ hPc' = "idle"

C12_TextOfCurrentFile ==
    [][FileSelectFinishes
       => /\ IsNull(summaryResult')
          /\ (extractedText' = <<>> \/ HeldFrom(Val(currentFile))')]_vars

----------------------------------------------------------------------------
(* Properties of handleSummarize and of the documents it saves *)

\* the step in which addDoc settles without a new document: the write failed
WriteFails == gPc = "addDoc" /\ gPc' = "idle" /\ store' = store

\* the step in which /api/summarize is answered with an error, or is lost
SummarizeFails == gPc = "fetch" /\ gPc' = "idle" /\ error' # ""

\* C16: a document is written only by a handleSummarize whose /api/summarize
\* request was answered 200, with the summary already shown, and only with
\* a user; when the write fails the error shown stays empty and the summary
\* stays shown; when /api/summarize fails no write follows.
C16_SaveAfterSuccess ==
    [][/\ store' # store
          => /\ gPc = "addDoc"
             /\ Val(gResp).status = 200
             /\ summaryResult = Some(Val(gResp).body)
             /\ ~IsNull(user)
       /\ WriteFails
          => /\ error' = ""
             /\ ~IsNull(summaryResult')
             /\ summaryResult' = summaryResult
       /\ SummarizeFails
          => /\ store' = store
             /\ IsNull(summaryResult')]_vars

\* with a user and a current file the summary is shown, no error is shown
\* and nothing was written: the write has failed
C16_Witness ==
    /\ gPc = "idle"
    /\ hPc = "idle"
    /\ ~isProcessing
    /\ sent = 1
    /\ ~IsNull(user)
    /\ ~IsNull(currentFile)
    /\ ~IsNull(summaryResult)
    /\ error = ""
    /\ store = {}

\* C17: while the write of the document is awaited the summary is already
\* shown and the processing state is already released.
C17_WriteNotAwaited ==
    gPc = "addDoc" => (~IsNull(summaryResult) /\ ~isProcessing)

\* p is the first k characters of t (all of t when t is shorter)
IsFirstChars(p, t, k) ==
    /\ TextLen(p) = IF TextLen(t) < k THEN TextLen(t) ELSE k
    /\ Len(p) <= Len(t)
    /\ \A i \in 1..Len(p) :
        /\ p[i].ch = t[i].ch
        /\ IF i < Len(p) THEN p[i].n = t[i].n ELSE p[i].n <= t[i].n

\* C18: the document that handleSummarize writes has originalText equal to
\* the first 1000 characters of the extracted text that went to
\* /api/summarize, userId equal to the user's id, and customLength equal to
\* the chosen length when its summaryType is 'custom' and null otherwise;
\* no originalText in the store is longer than 1000 characters.
C18_RecordFields ==
    /\ [](\A r \in store : TextLen(r.originalText) <= 1000)
    /\ [][store' # store
          => \E r \in store' \ store :
                /\ store' = store \cup {r}
                /\ gCtx.text = extractedText
                /\ SummarizeRequest(gCtx).text = Some(extractedText)
                /\ IsFirstChars(r.originalText, extractedText, 1000)
                /\ r.userId = Val(user).uid
                /\ r.summaryType = gCtx.summaryType
                /\ r.customLength = IF r.summaryType = "custom"
                                    THEN Some(gCtx.customLength) ELSE Null]_vars

\* the store holds a custom summary of chosen length 300 and a bullet
\* summary of the same long text
C18_Witness ==
    \E r1, r2 \in store :
        /\ r1.summaryType = "custom"
        /\ r1.customLength = Some(300)
        /\ TextLen(r1.originalText) = 1000
        /\ r2.summaryType = "bullet"
        /\ r2.customLength = Null
        /\ r2.originalText = r1.originalText

\* the step in which /api/summarize is answered 200: the summary is shown
SummarizeSucceeds == gPc = "fetch" /\ summaryResult' # summaryResult

\* C19: every handleSummarize sends exactly one /api/summarize request; when
\* the request succeeds with a user and a current file one write follows,
\* and every write that succeeds adds one new document: the store holds as
\* many documents as writes have succeeded, and no document in it is ever
\* changed or removed by a summarization.
C19_NotIdempotent ==
    /\ [](Cardinality(store) = clock /\ clock <= sent)
    /\ [][/\ (gPc = "idle" /\ gPc' # "idle") => (gPc' = "fetch" /\ sent' = sent + 1)
          /\ sent' # sent => (gPc = "idle" /\ gPc' = "fetch")
          /\ (SummarizeSucceeds /\ ~IsNull(user) /\ ~IsNull(currentFile))
             => gPc' = "addDoc"
          /\ store \subseteq store'
          /\ clock' # clock
             => (gPc = "addDoc" /\ Cardinality(store') = Cardinality(store) + 1)]_vars

\* two summarizations of the same text of the same file have left two documents
C19_Witness ==
    /\ sent = 2
    /\ Cardinality(store) = 2
    /\ \A r1, r2 \in store :
        /\ r1.originalText = r2.originalText
        /\ r1.fileName = r2.fileName
        /\ r1.summary = r2.summary

DescribesFile(r, f) ==
    /\ r.fileName = f.name
    /\ r.fileSize = f.size
    /\ r.fileType = f.type
    /\ r.originalText = Substring0(f.text, OriginalTextCap)

\* C26: every record that handleSummarize has written describes one
\* document: its fileName, fileSize and fileType are those of the file that
\* its text was extracted from, whatever was uploaded, removed and
\* summarized before.
C26_RecordOfOneFile == \A r \in store : \E f \in ClientFiles : DescribesFile(r, f)

\* a call of handleFileSelect or of handleSummarize is running
HandlerRunning == hPc # "idle" \/ gPc # "idle"

\* C29: isProcessing is true while handleFileSelect or handleSummarize runs
\* and false when none runs, and, every awaited call returning or throwing,
\* a true isProcessing becomes false again on every path.
C29_ProcessingEnds ==
    /\ [](isProcessing <=> HandlerRunning)
    /\ isProcessing ~> ~isProcessing

\* a handleSummarize whose history write failed has ended
C29_Witness ==
    /\ ~HandlerRunning
    /\ ~isProcessing
    /\ ~IsNull(summaryResult)
    /\ ShouldSave(user, currentFile)
    /\ store = {}

----------------------------------------------------------------------------
(* Properties of the History tab *)

\* C20: when a deleteItem(id) ends, either nothing but the call is gone (the
\* delete failed) or the document with that id is gone from the store, its
\* item is gone from historyItems and from filteredItems, every other
\* document and item is as before, and the selection is null if it was the
\* item with that id and is as before otherwise.
C20_DeleteEffect ==
    [][\A d \in deletes \ deletes' :
        \/ UNCHANGED <<store, historyItems, filteredItems, selectedItem>>
        \/ /\ store' = {doc \in store : doc.id # d.itemId}
           /\ historyItems' = WithoutId(historyItems, d.itemId)
           /\ filteredItems' = WithoutId(filteredItems, d.itemId)
           /\ selectedItem' = IF ~IsNull(selectedItem) /\ Val(selectedItem).id = d.itemId
                              THEN Null ELSE selectedItem]_vars

\* the id of an item is the id of one of the items of a list
InList(item, items) == \E i \in 1..Len(items) : items[i].id = item.id

\* C21: whatever the order of selections and deletes, the detail pane never
\* shows a deleted record: selectedItem is null or an item of historyItems.
C21_SelectionInList == IsNull(selectedItem) \/ InList(Val(selectedItem), historyItems)

\* the calls of handleFileSelect, handleSummarize and deleteItem that have
\* started and not completed
Running ==
    (IF hPc # "idle" THEN 1 ELSE 0) + (IF gPc # "idle" THEN 1 ELSE 0) + Cardinality(deletes)

\* C22: at any time at most one call of handleFileSelect, handleSummarize or
\* deleteItem has started and not completed.
C22_SingleInFlight == Running <= 1

\* every item of the list is a document of the signed-in user
OwnedByUser(items) ==
    \A i \in 1..Len(items) : ~IsNull(user) /\ items[i].userId = Val(user).uid

\* the items of the list are in descending order of creation time
Descending(items) ==
    \A i, j \in 1..Len(items) : i < j => items[i].createdAt >= items[j].createdAt

\* sub is what is left of items when some of its items are taken out
IsSubSeq(sub, items) ==
    \E f \in [1..Len(sub) -> 1..Len(items)] :
        /\ \A i, j \in 1..Len(sub) : i < j => f[i] < f[j]
        /\ \A i \in 1..Len(sub) : sub[i] = items[f[i]]

SameLetter(a, b) ==
    \/ a = b
    \/ \E k \in 1..Len(UpperCase) : {a, b} = {UpperCase[k], LowerCase[k]}

\* q is a substring of str when the case of the letters is ignored
ContainsIgnoringCase(str, q) ==
    \E off \in 0..(Len(str) - Len(q)) : \A j \in 1..Len(q) : SameLetter(str[off + j], q[j])

\* the query is blank after trimming
BlankQuery(q) == \A i \in 1..Len(q) : IsWs(q[i])

\* the items of historyItems that the search is for
Searched ==
    SelectSeq(historyItems,
              LAMBDA item : \/ ContainsIgnoringCase(item.fileName, searchQuery)
                            \/ ContainsIgnoringCase(Chars(item.summary), searchQuery))

\* filteredItems is historyItems for a blank query and the searched items of
\* historyItems otherwise
FilteredAsSearched ==
    filteredItems = IF BlankQuery(searchQuery) THEN historyItems ELSE Searched

\* the ids of the documents that a deleteItem has deleted: the store gives
\* the ids 1..clock, and only deleteItem takes documents out of it
DeletedIds == {id \in 1..clock : \A doc \in store : doc.id # id}

\* C24: filteredItems is historyItems when the query is blank after trimming
\* and otherwise exactly the items whose file name or summary contains the
\* query, case ignored; it follows every change of the query and of the
\* list, and after a delete it never contains the deleted record.
C24_FilteredList ==
    /\ FilteredAsSearched
    /\ \A i \in 1..Len(filteredItems) : filteredItems[i].id \notin DeletedIds

\* C27: whatever the order of fetches and deletes, a record that a
\* deleteItem has deleted is never in historyItems again.
C27_DeletedStaysGone ==
    \A i \in 1..Len(historyItems) : historyItems[i].id \notin DeletedIds

\* the list is loaded, a running fetchHistory ends and the user does nothing
FetchEnds == ~isLoading /\ (FetchHistoryResolves \/ FetchHistoryRejects)

----------------------------------------------------------------------------
(* Properties of the statistics *)

\* fetchStats has loaded the statistics and no summarization and no delete
\* is running
StatsSettled ==
    /\ ~IsNull(statsCall) /\ Val(statsCall).pc = "done"
    /\ gPc = "idle"
    /\ deletes = {}

\* C25: once loaded, the statistics follow the store: after any summaries
\* and deletes, documentsProcessed is the number of the user's documents in
\* the store and timeSaved the sum of ceil(originalWordCount / 100) over them.
C25_StatsTrackStore ==
    StatsSettled =>
        /\ stats.documentsProcessed = Cardinality(UserDocs(store, Val(user)))
        /\ stats.timeSaved = TotalTimeSaved(UserDocs(store, Val(user)))

====
